---- MODULE Spec2Model ----
(***************************************************************************)
(* Model of PasswordManager (src/main_program.py): the in-memory           *)
(* name-to-secret dict and the settings dict, their two JSON files, the    *)
(* rows shown on the main page, the page shown by the stacked widget and   *)
(* the handlers connected to the buttons.                                  *)
(*                                                                         *)
(* Strings are sequences of one-character strings, so that str.strip(),    *)
(* int() and sorted() are computed rather than assumed.  The text a user   *)
(* types into a QLineEdit before pressing a button is drawn with \E at the *)
(* handler that reads it; update_program_input is read-only for the user   *)
(* and therefore kept as state.                                            *)
(***************************************************************************)
EXTENDS Integers, Sequences, FiniteSets, TLC

VARIABLES
    passwords,             \* self.passwords
    passwords_file,        \* content of passwords.json
    settings,              \* self.settings
    default_settings,      \* self.default_settings
    settings_file,         \* content of settings.json
    password_list,         \* rows of password_list_layout, in display order
    page,                  \* stacked_widget.currentIndex()
    update_program_input,  \* text of the read-only field of the update page
    running,               \* the process is alive
    last                   \* the last handler that showed a dialog, and the dialog

vars == <<passwords, passwords_file, settings, default_settings, settings_file,
          password_list, page, update_program_input, running, last>>

----------------------------------------------------------------------------
(* Bounds, and the texts the user types and the files hold *)

MaxFileKeys == 2

Names == {<<"g">>, <<"h">>}
Secrets == {<<"P">>, <<"P", "1">>}

Padded(S) == S \cup {<<" ">> \o s : s \in S} \cup {s \o <<" ">> : s \in S}

NameTexts == {<<>>, <<" ">>} \cup Padded({<<"g">>}) \cup {<<"h">>}
SecretTexts == {<<>>, <<" ">>} \cup Padded({<<"P">>}) \cup {<<"P", "1">>}
NumberTexts == {<<>>, <<"x">>, <<"0">>, <<"1">>, <<"2">>, <<"1", "0">>}
FileLengths == {0, 1, 3}

----------------------------------------------------------------------------
(* Strings *)

Whitespace == {" "}
Digits == {"0", "1", "2", "3", "4", "5", "6", "7", "8", "9"}
Uppers == {"P"}
Lowers == {"g", "h", "x"}

RECURSIVE LStrip(_)
LStrip(s) == IF s # <<>> /\ Head(s) \in Whitespace THEN LStrip(Tail(s)) ELSE s

RECURSIVE RStrip(_)
RStrip(s) ==
    IF s # <<>> /\ s[Len(s)] \in Whitespace
    THEN RStrip(SubSeq(s, 1, Len(s) - 1))
    ELSE s

Strip(s) == RStrip(LStrip(s))

Ord(c) ==
    CASE c = " " -> 32
      [] c = "0" -> 48
      [] c = "1" -> 49
      [] c = "2" -> 50
      [] c = "P" -> 80
      [] c = "g" -> 103
      [] c = "h" -> 104
      [] c = "x" -> 120

RECURSIVE StrLess(_, _)
StrLess(a, b) ==
    IF b = <<>> THEN FALSE
    ELSE IF a = <<>> THEN TRUE
    ELSE IF Head(a) # Head(b) THEN Ord(Head(a)) < Ord(Head(b))
    ELSE StrLess(Tail(a), Tail(b))

RECURSIVE Sorted(_)
Sorted(S) ==
    IF S = {} THEN <<>>
    ELSE LET m == CHOOSE x \in S : \A y \in S \ {x} : StrLess(x, y)
         IN <<m>> \o Sorted(S \ {m})

DigitVal(c) == Ord(c) - 48

IsNumeral(t) == t # <<>> /\ \A i \in 1..Len(t) : t[i] \in Digits

RECURSIVE IntOf(_)
IntOf(t) ==
    IF t = <<>> THEN 0
    ELSE 10 * IntOf(SubSeq(t, 1, Len(t) - 1)) + DigitVal(t[Len(t)])

----------------------------------------------------------------------------
(* dict *)

EmptyDict == [k \in {} |-> <<>>]

DictSetIfAbsent(d, k, v) == [x \in DOMAIN d \cup {k} |-> IF x \in DOMAIN d THEN d[x] ELSE v]

DictSet(d, k, v) == [x \in DOMAIN d \cup {k} |-> IF x = k THEN v ELSE d[x]]

DictDel(d, k) == [x \in DOMAIN d \ {k} |-> d[x]]

DictGet(d, k, default) == IF k \in DOMAIN d THEN d[k] ELSE default

----------------------------------------------------------------------------
(* Files *)

MissingFile == [kind |-> "missing", data |-> EmptyDict]
MalformedFile == [kind |-> "malformed", data |-> EmptyDict]
JsonFile(d) == [kind |-> "json", data |-> d]

SaveOutcomes == {"written", "open_failed", "write_failed"}

save_to_json(data, file, outcome) ==
    CASE outcome = "written" -> JsonFile(data)
      [] outcome = "open_failed" -> file
      [] outcome = "write_failed" -> MalformedFile

load_passwords(file) == IF file.kind = "json" THEN file.data ELSE EmptyDict

SettingKeys ==
    {"min_length", "max_length", "require_special", "require_capital", "require_number"}

Defaults ==
    [min_length |-> 8, max_length |-> 20, require_special |-> TRUE,
     require_capital |-> TRUE, require_number |-> TRUE]

load_settings(file) ==
    IF file.kind = "json"
    THEN [k \in SettingKeys |-> DictGet(file.data, k, Defaults[k])]
    ELSE Defaults

----------------------------------------------------------------------------
(* Initial files *)

PasswordDicts == UNION {[K -> Secrets \cup {<<>>}] : K \in SUBSET Names}

PasswordFiles == {MissingFile} \cup {JsonFile(d) : d \in PasswordDicts}

LengthKeys == {"min_length", "max_length"}

Merge(a, b) == [k \in DOMAIN a \cup DOMAIN b |-> IF k \in DOMAIN a THEN a[k] ELSE b[k]]

SettingDicts ==
    {Merge(a, b) :
       a \in UNION {[K -> FileLengths] : K \in SUBSET LengthKeys},
       b \in UNION {[K -> {FALSE}] : K \in SUBSET (SettingKeys \ LengthKeys)}}

SettingFiles ==
    {MissingFile, MalformedFile}
        \cup {JsonFile(d) : d \in {x \in SettingDicts : Cardinality(DOMAIN x) <= MaxFileKeys}}

LenientFile ==
    JsonFile([min_length |-> 2, max_length |-> 2, require_special |-> FALSE,
              require_capital |-> FALSE, require_number |-> FALSE])

NoDialog == [op |-> "main", name |-> <<>>, secret |-> <<>>, box |-> "none"]

Dialog(op, name, secret, box) ==
    [op |-> op, name |-> name, secret |-> secret, box |-> box]

SaveBox(outcome, success_msg) ==
    IF outcome = "written" THEN success_msg ELSE "Failed to save"

Launch(pf, sf) ==
    /\ passwords = load_passwords(pf)
    /\ passwords_file = pf
    /\ default_settings = Defaults
    /\ settings = load_settings(sf)
    /\ settings_file = sf
    /\ password_list = Sorted(DOMAIN load_passwords(pf))
    /\ page = 0
    /\ update_program_input = <<>>
    /\ running = TRUE
    /\ last = NoDialog

Init == \E pf \in PasswordFiles, sf \in {MissingFile, LenientFile} : Launch(pf, sf)

InitSettings == \E sf \in SettingFiles : Launch(MissingFile, sf)

----------------------------------------------------------------------------
(* Navigation *)

show_main_page ==
    /\ running
    /\ page \in 1..4
    /\ page' = 0
    /\ UNCHANGED <<passwords, passwords_file, settings, default_settings,
                   settings_file, password_list, update_program_input, running, last>>

show_add_password_page ==
    /\ running
    /\ page' = 1
    /\ UNCHANGED <<passwords, passwords_file, settings, default_settings,
                   settings_file, password_list, update_program_input, running, last>>

show_help_page ==
    /\ running
    /\ page' = 2
    /\ UNCHANGED <<passwords, passwords_file, settings, default_settings,
                   settings_file, password_list, update_program_input, running, last>>

show_settings_page ==
    /\ running
    /\ page' = 3
    /\ UNCHANGED <<passwords, passwords_file, settings, default_settings,
                   settings_file, password_list, update_program_input, running, last>>

show_update_password_page(program_name) ==
    /\ running
    /\ page = 0
    /\ update_program_input' = program_name
    /\ page' = 4
    /\ UNCHANGED <<passwords, passwords_file, settings, default_settings,
                   settings_file, password_list, running, last>>

----------------------------------------------------------------------------
(* Password operations *)

save_password(program_text, password_text, outcome) ==
    LET program == Strip(program_text)
        password == Strip(password_text)
    IN /\ running
       /\ page = 1
       /\ IF program = <<>> \/ password = <<>>
          THEN /\ last' = Dialog("save_password", program_text, password_text,
                                 "Both fields are required!")
               /\ UNCHANGED <<passwords, passwords_file, password_list, page>>
          ELSE /\ passwords' = DictSet(passwords, program, password)
               /\ passwords_file' = save_to_json(passwords', passwords_file, outcome)
               /\ last' = Dialog("save_password", program_text, password_text,
                                 SaveBox(outcome, "Password saved successfully!"))
               /\ IF outcome = "written"
                  THEN /\ password_list' = Sorted(DOMAIN passwords')
                       /\ page' = 0
                  ELSE UNCHANGED <<password_list, page>>
       /\ UNCHANGED <<settings, default_settings, settings_file,
                      update_program_input, running>>

update_password(password_text, outcome) ==
    LET program == Strip(update_program_input)
        password == Strip(password_text)
    IN /\ running
       /\ page = 4
       /\ IF password = <<>>
          THEN /\ last' = Dialog("update_password", update_program_input,
                                 password_text, "Password cannot be empty!")
               /\ UNCHANGED <<passwords, passwords_file, password_list, page>>
          ELSE /\ passwords' = DictSet(passwords, program, password)
               /\ passwords_file' = save_to_json(passwords', passwords_file, outcome)
               /\ last' = Dialog("update_password", update_program_input,
                                 password_text,
                                 SaveBox(outcome, "Password updated successfully!"))
               /\ IF outcome = "written"
                  THEN /\ password_list' = Sorted(DOMAIN passwords')
                       /\ page' = 0
                  ELSE UNCHANGED <<password_list, page>>
       /\ UNCHANGED <<settings, default_settings, settings_file,
                      update_program_input, running>>

RetrieveDialog(d, program_name) ==
    Dialog("retrieve_password", program_name, DictGet(d, program_name, <<>>), "Password")

retrieve_password(program_name) ==
    /\ running
    /\ page = 0
    /\ last' = RetrieveDialog(passwords, program_name)
    /\ UNCHANGED <<passwords, passwords_file, settings, default_settings,
                   settings_file, password_list, page, update_program_input, running>>

delete_password(program_name, reply, outcome, fatal) ==
    /\ running
    /\ page = 0
    /\ IF reply # "Yes"
       THEN /\ last' = Dialog("delete_password", program_name, <<>>, "No")
            /\ UNCHANGED <<passwords, passwords_file, password_list, running>>
       ELSE IF program_name \notin DOMAIN passwords
       THEN /\ last' = Dialog("delete_password", program_name, <<>>, "KeyError")
            /\ running' = ~fatal
            /\ UNCHANGED <<passwords, passwords_file, password_list>>
       ELSE /\ passwords' = DictDel(passwords, program_name)
            /\ passwords_file' = save_to_json(passwords', passwords_file, outcome)
            /\ last' = Dialog("delete_password", program_name, <<>>,
                              SaveBox(outcome, "Password deleted successfully!"))
            /\ password_list' =
                   IF outcome = "written" THEN Sorted(DOMAIN passwords')
                   ELSE password_list
            /\ UNCHANGED running
    /\ UNCHANGED <<settings, default_settings, settings_file, page,
                   update_program_input>>

----------------------------------------------------------------------------
(* Settings operations *)

save_settings(min_text, max_text, outcome) ==
    /\ running
    /\ page = 3
    /\ IF ~(IsNumeral(min_text) /\ IsNumeral(max_text))
       THEN /\ last' = Dialog("save_settings", <<>>, <<>>,
                              "Length values must be valid numbers.")
            /\ UNCHANGED <<settings, settings_file, page>>
       ELSE LET min_length == IntOf(min_text)
                max_length == IntOf(max_text)
            IN IF min_length < 1 \/ max_length < min_length
               THEN /\ last' = Dialog("save_settings", <<>>, <<>>,
                                      "Invalid Input")
                    /\ UNCHANGED <<settings, settings_file, page>>
               ELSE /\ settings' = [settings EXCEPT !.min_length = min_length,
                                                    !.max_length = max_length]
                    /\ settings_file' = save_to_json(settings', settings_file, outcome)
                    /\ last' = Dialog("save_settings", <<>>, <<>>,
                                      SaveBox(outcome, "Settings saved successfully!"))
                    /\ page' = IF outcome = "written" THEN 0 ELSE page
    /\ UNCHANGED <<passwords, passwords_file, default_settings, password_list,
                   update_program_input, running>>

reset_settings_rollback(outcome) ==
    /\ running
    /\ page = 3
    /\ settings' = IF outcome = "written" THEN default_settings ELSE settings
    /\ settings_file' = save_to_json(default_settings, settings_file, outcome)
    /\ last' = Dialog("reset_settings", <<>>, <<>>,
                      SaveBox(outcome, "Settings reset to defaults!"))
    /\ UNCHANGED <<passwords, passwords_file, default_settings, password_list,
                   page, update_program_input, running>>

reset_settings(outcome) ==
    /\ running
    /\ page = 3
    /\ settings' = default_settings
    /\ settings_file' = save_to_json(settings', settings_file, outcome)
    /\ last' = Dialog("reset_settings", <<>>, <<>>,
                      SaveBox(outcome, "Settings reset to defaults!"))
    /\ UNCHANGED <<passwords, passwords_file, default_settings, password_list,
                   page, update_program_input, running>>

----------------------------------------------------------------------------
(* The process is closed, or has died, and the program is started again. *)

main ==
    /\ passwords' = load_passwords(passwords_file)
    /\ default_settings' = Defaults
    /\ settings' = load_settings(settings_file)
    /\ password_list' = Sorted(DOMAIN passwords')
    /\ page' = 0
    /\ update_program_input' = <<>>
    /\ running' = TRUE
    /\ last' = NoDialog
    /\ UNCHANGED <<passwords_file, settings_file>>

----------------------------------------------------------------------------

Rows == {password_list[i] : i \in 1..Len(password_list)}

Next ==
    \/ show_main_page
    \/ show_add_password_page
    \/ show_help_page
    \/ \E n \in Rows : show_update_password_page(n)
    \/ \E n \in NameTexts, s \in SecretTexts, o \in SaveOutcomes : save_password(n, s, o)
    \/ \E s \in SecretTexts, o \in SaveOutcomes : update_password(s, o)
    \/ \E n \in Rows : retrieve_password(n)
    \/ \E n \in Rows, r \in {"Yes", "No"}, o \in SaveOutcomes, f \in BOOLEAN :
          delete_password(n, r, o, f)
    \/ main

Spec == Init /\ [][Next]_vars

NextSettings ==
    \/ show_main_page
    \/ show_settings_page
    \/ \E a \in NumberTexts, b \in NumberTexts, o \in SaveOutcomes : save_settings(a, b, o)
    \/ \E o \in SaveOutcomes : reset_settings(o)
    \/ main

SpecSettings == InitSettings /\ [][NextSettings]_vars

----------------------------------------------------------------------------
(* The policy rule a secret is held against: length within                 *)
(* [min_length, max_length], and a special character, an upper-case letter *)
(* and a digit where the policy requires one.                              *)

Chars(s) == {s[i] : i \in 1..Len(s)}

Violations(secret, policy) ==
    {v \in {"TooShort", "TooLong", "MissingSpecial", "MissingCapital", "MissingNumber"} :
        \/ v = "TooShort" /\ Len(secret) < policy.min_length
        \/ v = "TooLong" /\ Len(secret) > policy.max_length
        \/ v = "MissingSpecial" /\ policy.require_special
              /\ Chars(secret) \subseteq Digits \cup Uppers \cup Lowers
        \/ v = "MissingCapital" /\ policy.require_capital /\ Chars(secret) \cap Uppers = {}
        \/ v = "MissingNumber" /\ policy.require_number /\ Chars(secret) \cap Digits = {}}

PasswordOps == {"save_password", "update_password", "delete_password"}
Accepted == {"Password saved successfully!", "Password updated successfully!"}

----------------------------------------------------------------------------
(* Claims *)

\* C1: an add, update or delete whose write fails leaves the in-memory
\* mapping as it was before the operation (the mutation is rolled back), so
\* that memory keeps agreeing with what was last durably saved.
C1_WriteFailureRollsBack ==
    [][(last' # last /\ last'.op \in PasswordOps /\ last'.box = "Failed to save")
          => passwords' = passwords]_vars

\* C2: update on a name that is not a key of the in-memory mapping changes
\* neither the mapping nor the file; it never creates an entry.
C2_UpdateOfAbsentNameChangesNothing ==
    [][((\E s \in SecretTexts, o \in SaveOutcomes : update_password(s, o))
           /\ update_program_input \notin DOMAIN passwords)
          => UNCHANGED <<passwords, passwords_file>>]_vars

\* C3: delete on a name that is not a key of the in-memory mapping is an
\* ordinary outcome; it never ends in an uncaught error.
C3_DeleteOfAbsentNameNeverRaises ==
    ~(last.op = "delete_password" /\ last.box = "KeyError")

\* C4: every secret accepted by add or update satisfies the policy in force
\* at the call.
C4_AcceptedSecretSatisfiesPolicy ==
    (last.op \in {"save_password", "update_password"} /\ last.box \in Accepted)
        => Violations(Strip(last.secret), settings) = {}

\* C5: in every reachable state the in-memory policy has
\* 1 <= min_length <= max_length.
C5_LengthBoundsOrdered ==
    /\ settings.min_length >= 1
    /\ settings.min_length <= settings.max_length

\* C6: a save-settings whose write fails leaves the in-memory policy as it
\* was before the call.
C6_SettingsWriteFailureRollsBack ==
    [][(last' # last /\ last'.op = "save_settings" /\ last'.box = "Failed to save")
          => settings' = settings]_vars

\* C7: after any step the credential file holds either what it held before
\* the step or the complete new record set.
C7_FileIsOldOrNew ==
    [][passwords_file' = passwords_file \/ passwords_file' = JsonFile(passwords')]_vars

AddSucceeded == last.op = "save_password" /\ last.box = "Password saved successfully!"

C9_AbsentDiffersFromPresent ==
    (last.op = "retrieve_password" /\ last.name \notin DOMAIN passwords)
        => \A s \in Secrets \cup {<<>>} :
              last # RetrieveDialog(DictSet(passwords, last.name, s), last.name)

\* C10: after reset the in-memory policy equals the defaults (8, 20, all
\* three flags required), whether or not the write succeeded and whatever
\* was saved or reset before; the defaults themselves never change.
C10_ResetYieldsDefaults ==
    /\ default_settings =
          [min_length |-> 8, max_length |-> 20, require_special |-> TRUE,
           require_capital |-> TRUE, require_number |-> TRUE]
    /\ last.op = "reset_settings" => settings = default_settings

\* C10 witness: a reset whose write failed, after a save-settings had put a
\* different policy into the file.
C10_Witness ==
    /\ last.op = "reset_settings"
    /\ last.box = "Failed to save"
    /\ settings_file.kind = "json"
    /\ load_settings(settings_file) # settings
    /\ load_settings(settings_file).min_length <= 2

====
